---- MODULE Spec2Model ----
(***************************************************************************)
(* EasyXML (src/easyxml.py): a tree of EasyXML objects built with          *)
(* attribute syntax.  The heap is a sequence of node records; a node       *)
(* reference is its index in the heap, and None is 0.  Object identity is  *)
(* index equality.                                                          *)
(***************************************************************************)
EXTENDS Integers, Sequences, FiniteSets, TLC

VARIABLES
    heap,   \* the EasyXML objects constructed so far, in construction order
    hist,   \* SpecPath: the statements root.n1...nk(**kwargs) executed so far
    out,    \* SpecPath: the DOM element of the final print str(root), or NoXml
    threads,\* SpecWalk: the two running invocations of __call__, or NoThreads
    start   \* SpecWalk: the heap at the fork and how the two runs overlapped

vars == <<heap, hist, out, threads, start>>

\* ------------------------------------------------------------------ bounds

\* Spec: the number of EasyXML objects ever constructed.
MaxNodes == 6

\* SpecPath: the number of statements root.n1...nk(**kwargs) executed.
MaxStmts == 5

\* SpecWalk: the number of cursors made before the two invocations start.
MaxCursors == 2

\* ------------------------------------------------------------------ inputs

None == 0

Root == 1

RootNames == {"root", "books"}

\* The child names of the input universe that do not start with '_'.
Names == {"a", "b"}

\* The names of the input universe that start with '_' (name.startswith('_')).
ReservedNames == {"_x"}

IntVal(n) == [t |-> "int", i |-> n, s |-> ""]

StrVal(x) == [t |-> "str", i |-> 0, s |-> x]

\* A keyword-argument dict: its items in insertion order, the keys distinct.
NoAttrs == <<>>

X1 == <<[k |-> "x", v |-> IntVal(1)]>>

X2 == <<[k |-> "x", v |-> IntVal(2)]>>

\* Spec: the keyword arguments of a call through a held reference.
AttrMaps == {X1}

\* SpecPath: the keyword arguments of a statement.
StmtAttrMaps == {X1, X2}

\* SpecPath: the paths of the docstring of __call__ (root.a.b.c, root.a), their
\* prefixes, and the root itself.
Paths == {<<>>, <<"a">>, <<"a", "b">>, <<"a", "b", "c">>}

\* ------------------------------------------------------------------ helpers

EmptyMap == [k \in {} |-> None]

\* dict.values()
Values(m) == {m[k] : k \in DOMAIN m}

\* dict[k] = v
Put(m, k, v) == [x \in DOMAIN m \cup {k} |-> IF x = k THEN v ELSE m[x]]

\* name.startswith('_')
StartsWithUnderscore(nm) == nm \in ReservedNames

\* str(int) for a decimal digit
Digit(d) == CASE d = 0 -> "0" [] d = 1 -> "1" [] d = 2 -> "2" [] d = 3 -> "3"
              [] d = 4 -> "4" [] d = 5 -> "5" [] d = 6 -> "6" [] d = 7 -> "7"
              [] d = 8 -> "8" [] d = 9 -> "9"

RECURSIVE Decimal(_)
Decimal(n) == IF n < 10 THEN Digit(n) ELSE Decimal(n \div 10) \o Digit(n % 10)

\* str(value)
Str(v) == IF v.t = "str" THEN v.s
          ELSE IF v.i < 0 THEN "-" \o Decimal(0 - v.i) ELSE Decimal(v.i)

\* ------------------------------------------------------------------ EasyXML

\* EasyXML.__init__(name)
Node(nm) == [name |-> nm, parent |-> None, elements |-> <<>>,
             attributes |-> NoAttrs, element_map |-> EmptyMap]

\* __getattr__ returning the first child of the name in _elements instead of
\* the _element_map entry.
GetAttrFirst(h, self, nm) ==
    IF nm \in ReservedNames
    THEN [heap |-> h, ret |-> 0, raised |-> TRUE]
    ELSE IF nm \in DOMAIN h[self].element_map
    THEN [heap |-> h,
          ret |-> h[self].elements[
                      CHOOSE i \in 1..Len(h[self].elements) :
                          /\ h[h[self].elements[i]].name = nm
                          /\ \A j \in 1..(i - 1) : h[h[self].elements[j]].name # nm],
          raised |-> FALSE]
    ELSE [heap |-> Append(h, [name |-> nm, parent |-> self, elements |-> <<>>,
                              attributes |-> <<>>, element_map |-> [k \in {} |-> 0]]),
          ret |-> Len(h) + 1, raised |-> FALSE]

\* __getattr__ with the new element added to self at once.
GetAttrAttaching(h, self, nm) ==
    IF nm \in ReservedNames
    THEN [heap |-> h, ret |-> None, raised |-> TRUE]
    ELSE IF nm \in DOMAIN h[self].element_map
    THEN [heap |-> h, ret |-> h[self].element_map[nm], raised |-> FALSE]
    ELSE LET element == Len(h) + 1
             h1 == Append(h, [name |-> nm, parent |-> self, elements |-> <<>>,
                              attributes |-> <<>>, element_map |-> [k \in {} |-> 0]])
         IN [heap |-> [h1 EXCEPT ![self].elements = Append(@, element),
                                 ![self].element_map =
                                     [x \in DOMAIN @ \cup {nm} |-> IF x = nm THEN element ELSE @[x]]],
             ret |-> element, raised |-> FALSE]

\* EasyXML.__getattr__(self, name) on heap h: the heap after, and what is
\* returned (a node reference) or that AttributeError is raised.
GetAttr(h, self, nm) ==
    IF StartsWithUnderscore(nm)
    THEN [heap |-> h, ret |-> None, raised |-> TRUE]
    ELSE IF nm \in DOMAIN h[self].element_map
    THEN [heap |-> h, ret |-> h[self].element_map[nm], raised |-> FALSE]
    ELSE LET element == Len(h) + 1
         IN [heap |-> Append(h, [Node(nm) EXCEPT !.parent = self]),
             ret |-> element, raised |-> FALSE]

\* The loop test without the stop at an ancestor that is already added.
WalkTestParentOnly(h, e) == h[e].parent # 0

\* The loop test of __call__: e._parent and e not in e._parent._element_map.values()
WalkTest(h, e) ==
    /\ h[e].parent # None
    /\ e \notin Values(h[h[e].parent].element_map)

\* The loop body with the new child put first (insert(0, e)).
AttachPrepend(h, e) ==
    LET p == h[e].parent
    IN [h EXCEPT ![p].elements = <<e>> \o @,
                 ![p].element_map = [x \in DOMAIN @ \cup {h[e].name} |->
                                       IF x = h[e].name THEN e ELSE @[x]]]

\* The loop body with the map update left out.
AttachNoMap(h, e) ==
    LET p == h[e].parent
    IN [h EXCEPT ![p].elements = Append(@, e)]

\* The loop body with setdefault in place of the map assignment: the first
\* child of a name stays the registered one.
AttachKeepFirst(h, e) ==
    LET p == h[e].parent
    IN [h EXCEPT ![p].elements = Append(@, e),
                 ![p].element_map = IF h[e].name \in DOMAIN @ THEN @
                                    ELSE [x \in DOMAIN @ \cup {h[e].name} |->
                                            IF x = h[e].name THEN e ELSE @[x]]]

\* The loop body with the append made on the root's list instead of the
\* parent's (the wrong receiver for _elements.append).
AttachAtRoot(h, e) ==
    LET p == h[e].parent
        g == [h EXCEPT ![Root].elements = Append(@, e)]
    IN [g EXCEPT ![p].element_map = Put(@, h[e].name, e)]

\* One iteration of the loop body of __call__: the heap after the append and
\* the map update.
Attach(h, e) ==
    LET p == h[e].parent
    IN [h EXCEPT ![p].elements = Append(@, e),
                 ![p].element_map = Put(@, h[e].name, e)]

\* The first statement of the loop body with the child put first.
AppendChildFirst(h, e) == [h EXCEPT ![h[e].parent].elements = <<e>> \o @]

\* The first statement of the loop body: e._parent._elements.append(e)
AppendChild(h, e) == [h EXCEPT ![h[e].parent].elements = Append(@, e)]

\* The second statement of the loop body: e._parent._element_map[e._name] = e
RegisterChild(h, e) == [h EXCEPT ![h[e].parent].element_map = Put(@, h[e].name, e)]

\* The while loop of __call__ started at e.
RECURSIVE Walk(_, _)
Walk(h, e) == IF WalkTest(h, e) THEN Walk(Attach(h, e), h[e].parent) ELSE h

\* The while loop of __call__ started at e, with the loop iterations counted:
\* the heap when the loop ends, the node e is bound to at that point, and
\* the number of times the body ran.
RECURSIVE WalkRun(_, _, _)
WalkRun(h, e, n) ==
    IF WalkTest(h, e)
    THEN WalkRun(Attach(h, e), h[e].parent, n + 1)
    ELSE [heap |-> h, at |-> e, iterations |-> n]

\* The new node made a child of self instead of a sibling (e._parent = self).
FreshUnderSelf(h, self, kwargs) ==
    [name |-> h[self].name, parent |-> self, elements |-> <<>>,
     attributes |-> kwargs, element_map |-> [k \in {} |-> 0]]

\* The node __call__ constructs: our name, our parent, the keyword arguments.
Fresh(h, self, kwargs) ==
    [Node(h[self].name) EXCEPT !.parent = h[self].parent, !.attributes = kwargs]

\* __call__ that attaches self, with the keyword arguments as its attributes,
\* instead of a new node (e = self).
CallReusingSelf(h, self, kwargs) ==
    LET h1 == Append(h, Fresh(h, self, kwargs))
    IN Walk([h1 EXCEPT ![self].attributes = kwargs], self)

\* __call__ that sets the keyword arguments on a parentless self.
CallSettingRootAttributes(h, self, kwargs) ==
    LET h1 == Walk(Append(h, Fresh(h, self, kwargs)), Len(h) + 1)
    IN IF h[self].parent = 0 THEN [h1 EXCEPT ![self].attributes = kwargs] ELSE h1

\* EasyXML.__call__(self, **kwargs) on heap h: the heap after (returns None).
Call(h, self, kwargs) == Walk(Append(h, Fresh(h, self, kwargs)), Len(h) + 1)

\* to_xml with the children taken last to first.
RECURSIVE ToXmlReversed(_, _)
ToXmlReversed(h, obj) ==
    [tag |-> h[obj].name,
     attrs |-> [i \in 1..Len(h[obj].attributes) |->
                  [k |-> h[obj].attributes[i].k, v |-> Str(h[obj].attributes[i].v)]],
     kids |-> [i \in 1..Len(h[obj].elements) |->
                  ToXmlReversed(h, h[obj].elements[Len(h[obj].elements) + 1 - i])]]

\* to_xml(obj) of __str__: the DOM element built for obj.
RECURSIVE ToXml(_, _)
ToXml(h, obj) ==
    [tag |-> h[obj].name,
     attrs |-> [i \in 1..Len(h[obj].attributes) |->
                  [k |-> h[obj].attributes[i].k, v |-> Str(h[obj].attributes[i].v)]],
     kids |-> [i \in 1..Len(h[obj].elements) |-> ToXml(h, h[obj].elements[i])]]

\* ------------------------------------------------------------------ state machine

NoXml == [tag |-> "", attrs |-> <<>>, kids |-> <<>>]

\* No invocation of __call__ is running.
NoThreads == <<>>

NoStart == [heap |-> <<>>, first |-> 0, overlapped |-> FALSE]

\* The references the caller can hold: the root it constructed and every node
\* __getattr__ has returned or can return.  A node with a parent is either a
\* cursor, which __getattr__ returned when it made it, or a node __call__
\* attached, which was its parent's _element_map value for its name when it was
\* attached, so that an access (which changes nothing) could return it then.
Held(h) == {n \in 1..Len(h) : n = Root \/ h[n].parent # None}

\* root = EasyXML('root'), as in the docstring of __call__.
Init ==
    /\ heap = <<Node("root")>>
    /\ hist = <<>>
    /\ out = NoXml
    /\ threads = NoThreads
    /\ start = NoStart

\* The caller evaluates x.name on a reference x it holds.
DoGetAttr(self, nm) ==
    LET r == GetAttr(heap, self, nm)
    IN /\ self \in Held(heap)
       /\ Len(r.heap) <= MaxNodes
       /\ heap' = r.heap
       /\ UNCHANGED <<hist, out, threads, start>>

\* The caller evaluates x(**kwargs) on a reference x it holds.
DoCall(self, kwargs) ==
    /\ self \in Held(heap)
    /\ Len(heap) < MaxNodes
    /\ heap' = Call(heap, self, kwargs)
    /\ UNCHANGED <<hist, out, threads, start>>

Next ==
    \/ \E self \in 1..MaxNodes, nm \in Names \cup ReservedNames : DoGetAttr(self, nm)
    \/ \E self \in 1..MaxNodes, kwargs \in AttrMaps : DoCall(self, kwargs)

Spec == Init /\ [][Next]_vars

\* The chained access root.n1...nk on heap h started at node self: the heap
\* after, with the cursors the chain made, and the node the chain returns.
RECURSIVE Resolve(_, _, _)
Resolve(h, self, path) ==
    IF path = <<>> THEN [heap |-> h, ret |-> self]
    ELSE LET r == GetAttr(h, self, Head(path))
         IN Resolve(r.heap, r.ret, Tail(path))

\* The statement root.n1...nk(**kwargs) of the docstrings.
Stmt(path, kwargs) ==
    LET r == Resolve(heap, Root, path)
    IN /\ Len(hist) < MaxStmts
       /\ out = NoXml
       /\ heap' = Call(r.heap, r.ret, kwargs)
       /\ hist' = Append(hist, [path |-> path, kwargs |-> kwargs])
       /\ UNCHANGED <<out, threads, start>>

\* The final statement print str(root) of the docstring.
DoStr ==
    /\ out' = ToXml(heap, Root)
    /\ UNCHANGED <<heap, hist, threads, start>>

NextPath ==
    \/ \E path \in Paths, kwargs \in StmtAttrMaps : Stmt(path, kwargs)
    \/ DoStr

\* root = EasyXML(r) for a root name r.
InitPath ==
    /\ \E r \in RootNames : heap = <<Node(r)>>
    /\ hist = <<>>
    /\ out = NoXml
    /\ threads = NoThreads
    /\ start = NoStart

SpecPath == InitPath /\ [][NextPath]_vars

\* Two invocations of __call__ run at once, each one statement at a time.  A
\* thread is at "new" before lines 114-116, at "test" before the loop test of
\* line 117, at "append", "map" and "up" before lines 118, 119 and 120, and
\* at "done" after the loop.
Thread(self, kwargs) == [pc |-> "new", self |-> self, kwargs |-> kwargs, e |-> None]

Other(i) == 3 - i

Busy(i) == threads[i].pc \notin {"new", "done"}

\* Thread i is at pc; the bookkeeping of start: which thread took the first
\* step, and whether a thread has stepped while the other was inside its call.
At(i, pc) ==
    /\ threads # NoThreads
    /\ threads[i].pc = pc
    /\ start' = [start EXCEPT !.first = IF @ = 0 THEN i ELSE @,
                              !.overlapped = @ \/ Busy(Other(i))]
    /\ UNCHANGED <<hist, out>>

\* Before the threads start, the caller makes cursors by child access.
Prepare(self, nm) ==
    /\ threads = NoThreads
    /\ Len(heap) <= MaxCursors
    /\ DoGetAttr(self, nm)

\* The caller starts s1(**X1) on one thread and s2(**X2) on another.
Fork(s1, s2) ==
    /\ threads = NoThreads
    /\ s1 \in Held(heap) /\ s2 \in Held(heap)
    /\ Len(heap) + 2 <= MaxNodes
    /\ threads' = <<Thread(s1, X1), Thread(s2, X2)>>
    /\ start' = [heap |-> heap, first |-> 0, overlapped |-> FALSE]
    /\ UNCHANGED <<heap, hist, out>>

\* Lines 114-116: e = EasyXML(self._name); e._parent, e._attributes = ...
Construct(i) ==
    /\ At(i, "new")
    /\ heap' = Append(heap, Fresh(heap, threads[i].self, threads[i].kwargs))
    /\ threads' = [threads EXCEPT ![i].pc = "test", ![i].e = Len(heap) + 1]

\* Line 117: the loop test.
Test(i) ==
    /\ At(i, "test")
    /\ threads' = [threads EXCEPT
                     ![i].pc = IF WalkTest(heap, threads[i].e) THEN "append" ELSE "done"]
    /\ UNCHANGED heap

\* Line 118.
AppendStep(i) ==
    /\ At(i, "append")
    /\ heap' = AppendChild(heap, threads[i].e)
    /\ threads' = [threads EXCEPT ![i].pc = "map"]

\* Line 119.
MapStep(i) ==
    /\ At(i, "map")
    /\ heap' = RegisterChild(heap, threads[i].e)
    /\ threads' = [threads EXCEPT ![i].pc = "up"]

\* Line 120: e = e._parent
MoveUp(i) ==
    /\ At(i, "up")
    /\ threads' = [threads EXCEPT ![i].pc = "test", ![i].e = heap[threads[i].e].parent]
    /\ UNCHANGED heap

NextWalk ==
    \/ \E self \in 1..MaxNodes, nm \in Names : Prepare(self, nm)
    \/ \E s1 \in 1..MaxNodes, s2 \in 1..MaxNodes : Fork(s1, s2)
    \/ \E i \in 1..2 : Construct(i)
    \/ \E i \in 1..2 : Test(i)
    \/ \E i \in 1..2 : AppendStep(i)
    \/ \E i \in 1..2 : MapStep(i)
    \/ \E i \in 1..2 : MoveUp(i)

SpecWalk == Init /\ [][NextWalk]_vars

\* ------------------------------------------------------------------ vocabulary of the claims

Nodes(h) == 1..Len(h)

\* The number of places of p's children list that hold n.
Occurrences(h, p, n) == Cardinality({i \in 1..Len(h[p].elements) : h[p].elements[i] = n})

\* n is a member of some children list.
Committed(h, n) == \E p \in Nodes(h) : Occurrences(h, p, n) > 0

\* n is a value of some childByName map.
Registered(h, n) == \E p \in Nodes(h) : n \in Values(h[p].element_map)

\* The places of p's children list that hold a node named k.
Named(h, p, k) == {i \in 1..Len(h[p].elements) : h[h[p].elements[i]].name = k}

Max(S) == CHOOSE x \in S : \A y \in S : y <= x

\* An uncommitted cursor: made by child access, attached nowhere.
Cursor(h, n) == h[n].parent # None /\ ~Committed(h, n)

\* ------------------------------------------------------------------ C4

\* C4: child access is read-only.  In every reachable state, for every node
\* the caller holds and every child name without the reserved prefix, the
\* access leaves every existing node (children, childByName, attributes,
\* parent, name) as it was; and when the name has no committed child, what it
\* returns is a new object whose parent is the accessed node and which is in
\* no children list and no childByName map.
AccessReadOnly ==
    \A self \in Held(heap), nm \in Names :
        LET r == GetAttr(heap, self, nm)
        IN /\ ~r.raised
           /\ Len(r.heap) >= Len(heap)
           /\ \A n \in Nodes(heap) : r.heap[n] = heap[n]
           /\ nm \notin DOMAIN heap[self].element_map =>
                /\ r.ret = Len(heap) + 1
                /\ Len(r.heap) = Len(heap) + 1
                /\ r.heap[r.ret].parent = self
                /\ r.heap[r.ret].name = nm
                /\ ~Committed(r.heap, r.ret)
                /\ ~Registered(r.heap, r.ret)

\* Chained and repeated accesses with no commit: two cursors of one name under
\* the root, one of them with a cursor below it, and nothing attached anywhere.
AccessReadOnlyWitness ==
    /\ \A n \in Nodes(heap) : heap[n].elements = <<>> /\ heap[n].element_map = EmptyMap
    /\ \E n1, n2, n3 \in Nodes(heap) :
        /\ n1 # n2
        /\ heap[n1].parent = Root /\ heap[n2].parent = Root
        /\ heap[n1].name = heap[n2].name
        /\ heap[n3].parent = n1

\* ------------------------------------------------------------------ C5

\* C5 as stated: no children list holds two nodes of one name.
AtMostOneChildPerName ==
    \A p \in Nodes(heap) : \A i, j \in 1..Len(heap[p].elements) :
        heap[heap[p].elements[i]].name = heap[heap[p].elements[j]].name => i = j

\* C5, amended: a children list may hold several nodes of one name (one for
\* each commit at that level); of these, one is registered in childByName
\* under the name, and it is the one attached last.
LastChildOfNameRegistered ==
    \A p \in Nodes(heap) : \A i \in 1..Len(heap[p].elements) :
        LET k == heap[heap[p].elements[i]].name
        IN /\ k \in DOMAIN heap[p].element_map
           /\ heap[p].element_map[k] = heap[p].elements[Max(Named(heap, p, k))]

\* A parent with two children of one name, different nodes, and a child of
\* another name attached after them.
LastChildOfNameRegisteredWitness ==
    \E p \in Nodes(heap) : \E i, j, l \in 1..Len(heap[p].elements) :
        /\ i < j /\ j < l
        /\ heap[p].elements[i] # heap[p].elements[j]
        /\ heap[heap[p].elements[i]].name = heap[heap[p].elements[j]].name
        /\ heap[heap[p].elements[l]].name # heap[heap[p].elements[j]].name

\* ------------------------------------------------------------------ C6

\* C6 as stated: every node occurs at most once in the children lists taken
\* together, and only in the list of its parent.
EachCommittedNodeOnce ==
    \A n \in Nodes(heap) : \A p \in Nodes(heap) :
        /\ Occurrences(heap, p, n) <= 1
        /\ Occurrences(heap, p, n) > 0 => heap[n].parent = p

\* ------------------------------------------------------------------ C7

\* C7: children and childByName agree.  For every node p and every key k of
\* p.childByName, p.childByName[k] is a member of p.children and is named k;
\* and k is a key of p.childByName exactly when p.children holds a node named k.
ChildrenMapConsistent ==
    \A p \in Nodes(heap) :
        /\ \A k \in DOMAIN heap[p].element_map :
            /\ Occurrences(heap, p, heap[p].element_map[k]) > 0
            /\ heap[heap[p].element_map[k]].name = k
        /\ \A k \in {heap[n].name : n \in Nodes(heap)} :
            k \in DOMAIN heap[p].element_map <=> Named(heap, p, k) # {}

\* A parent whose map has two keys, one of them with an earlier child of the
\* same name that the map no longer holds.
ChildrenMapConsistentWitness ==
    \E p \in Nodes(heap) :
        /\ Cardinality(DOMAIN heap[p].element_map) = 2
        /\ \E i \in 1..Len(heap[p].elements) :
            heap[p].elements[i] \notin Values(heap[p].element_map)

\* ------------------------------------------------------------------ C9

\* C9: invoking a node that has no parent is a no-op on the tree.  In every
\* reachable state, for every parentless node the caller holds and every
\* keyword-argument dict, the call returns (None) with every existing node,
\* the invoked one included, as it was; the one node it constructs has no
\* parent and is in no children list and no childByName map.
ParentlessCallNoOp ==
    \A self \in Held(heap), kwargs \in StmtAttrMaps \cup {NoAttrs} :
        heap[self].parent = None =>
            LET h2 == Call(heap, self, kwargs)
            IN /\ Len(h2) = Len(heap) + 1
               /\ \A n \in Nodes(heap) : h2[n] = heap[n]
               /\ h2[Len(h2)].parent = None
               /\ ~Committed(h2, Len(h2))
               /\ ~Registered(h2, Len(h2))

\* The root has been invoked in a state where it already had children: a
\* parentless node other than the root, constructed after a child of the root.
ParentlessCallNoOpWitness ==
    \E n \in Nodes(heap) :
        /\ n # Root
        /\ heap[n].parent = None
        /\ heap[n].attributes # NoAttrs
        /\ heap[Root].elements # <<>>
        /\ heap[Root].elements[1] < n

\* ------------------------------------------------------------------ C10

\* C10: the attributes of a committed node never change.  In every step, every
\* node that is a member of some children list keeps its attribute mapping.
CommittedAttributesImmutable ==
    [][\A p \in Nodes(heap) : \A i \in 1..Len(heap[p].elements) :
          heap'[heap[p].elements[i]].attributes = heap[heap[p].elements[i]].attributes]_vars

\* A committed node with attributes x=1 that has a child of its own (a path
\* passed through it) and a later sibling of its name (its name was invoked
\* again).
CommittedAttributesImmutableWitness ==
    \E p, n, m \in Nodes(heap) :
        /\ Occurrences(heap, p, n) > 0 /\ Occurrences(heap, p, m) > 0
        /\ n < m
        /\ heap[n].name = heap[m].name
        /\ heap[n].attributes = X1
        /\ heap[n].elements # <<>>

\* ------------------------------------------------------------------ expected documents

\* The attributes of an element for a keyword-argument dict of AttrMaps, as
\* the document shows them.
Quoted(kwargs) ==
    IF kwargs = X1 THEN <<[k |-> "x", v |-> "1"]>>
    ELSE IF kwargs = X2 THEN <<[k |-> "x", v |-> "2"]>>
    ELSE <<>>

Element(tag, attrs, kids) == [tag |-> tag, attrs |-> attrs, kids |-> kids]

\* The element tag holding a chain of attribute-less elements names[1], ...,
\* the innermost holding kids.
RECURSIVE Chain(_, _, _)
Chain(tag, names, kids) ==
    IF names = <<>> THEN Element(tag, <<>>, kids)
    ELSE Element(tag, <<>>, <<Chain(Head(names), Tail(names), kids)>>)

Front(path) == SubSeq(path, 1, Len(path) - 1)

ABC == <<"a", "b", "c">>

HistPaths == [i \in 1..Len(hist) |-> hist[i].path]

\* ------------------------------------------------------------------ C1

\* Every statement so far committed the same leaf path root.n1...nk, k >= 1.
SamePathRun ==
    /\ hist # <<>>
    /\ hist[1].path # <<>>
    /\ \A i \in 1..Len(hist) : hist[i].path = hist[1].path

\* C1: after N >= 1 commits on one leaf path root.n1...nk of a new root, each
\* resolved from the root, with keyword arguments A1..AN, the leaf's parent
\* has exactly N children, all named nk and all different nodes, carrying
\* A1..AN in commit order; and the document printed then is the chain
\* root/n1/.../n(k-1) holding those N elements in that order.
RepeatedCommitsInOrder ==
    SamePathRun =>
        LET path == hist[1].path
            r == Resolve(heap, Root, Front(path))
            kids == heap[r.ret].elements
        IN /\ r.heap = heap
           /\ Len(kids) = Len(hist)
           /\ \A i \in 1..Len(kids) :
                /\ heap[kids[i]].name = path[Len(path)]
                /\ heap[kids[i]].attributes = hist[i].kwargs
                /\ heap[kids[i]].elements = <<>>
                /\ \A j \in 1..Len(kids) : kids[i] = kids[j] => i = j
           /\ out # NoXml =>
                out = Chain(heap[Root].name, Front(path),
                            [i \in 1..Len(hist) |->
                                Element(path[Len(path)], Quoted(hist[i].kwargs), <<>>)])

\* Three commits on root.a.b.c with x=1, x=2, x=1, then the print.
RepeatedCommitsInOrderWitness ==
    /\ HistPaths = <<ABC, ABC, ABC>>
    /\ hist[1].kwargs = X1 /\ hist[2].kwargs = X2 /\ hist[3].kwargs = X1
    /\ out # NoXml

\* ------------------------------------------------------------------ C2

\* C2: on a new root, root.a.b.c(x=1) leaves root with one child a, a with
\* one child b and b with one child c carrying x=1; root.a.b.c(x=2) after it
\* leaves the same a and the same b, each still the only child of its parent,
\* and b with two children c carrying x=1 and x=2 in that order.
SecondCommitReusesAncestors ==
    (hist = <<[path |-> ABC, kwargs |-> X1]>>
        \/ hist = <<[path |-> ABC, kwargs |-> X1], [path |-> ABC, kwargs |-> X2]>>)
       => /\ Len(heap[Root].elements) = 1
          /\ LET a == heap[Root].elements[1]
             IN /\ heap[a].name = "a" /\ heap[a].attributes = NoAttrs
                /\ a = 2
                /\ Len(heap[a].elements) = 1
                /\ LET b == heap[a].elements[1]
                   IN /\ heap[b].name = "b" /\ heap[b].attributes = NoAttrs
                      /\ b = 3
                      /\ Len(heap[b].elements) = Len(hist)
                      /\ \A i \in 1..Len(hist) :
                            /\ heap[heap[b].elements[i]].name = "c"
                            /\ heap[heap[b].elements[i]].attributes = hist[i].kwargs
                            /\ heap[heap[b].elements[i]].elements = <<>>
                      /\ Len(hist) = 2 => heap[b].elements[1] # heap[b].elements[2]

\* root.a.b.c(x=1) then root.a.b.c(x=2) have been executed.
SecondCommitReusesAncestorsWitness ==
    hist = <<[path |-> ABC, kwargs |-> X1], [path |-> ABC, kwargs |-> X2]>>

\* ------------------------------------------------------------------ C3

\* n is reached from the root through childByName entries only: it is the
\* newest child of its name in its parent, and so is every ancestor of it.
RECURSIVE OnNewestChain(_, _)
OnNewestChain(h, n) ==
    \/ n = Root
    \/ /\ h[n].parent # None
       /\ h[n].name \in DOMAIN h[h[n].parent].element_map
       /\ h[h[n].parent].element_map[h[n].name] = n
       /\ OnNewestChain(h, h[n].parent)

\* Child access returns, by identity, the child attached last under the name.
AccessReturnsNewest ==
    \A self \in Nodes(heap) : \A nm \in DOMAIN heap[self].element_map :
        GetAttr(heap, self, nm).ret = heap[self].elements[Max(Named(heap, self, nm))]

\* The document of the docstring of __call__, with the keyword arguments of
\* the five statements.
DocstringDocument ==
    LET c(i) == Element("c", Quoted(hist[i].kwargs), <<>>)
    IN Element(heap[Root].name, <<>>,
               << Element("a", <<>>, <<Element("b", <<>>, <<c(1), c(2)>>)>>),
                  Element("a", Quoted(hist[3].kwargs), <<Element("b", <<>>, <<c(4), c(5)>>)>>) >>)

\* C3: child access by a name that has a committed child returns the child
\* attached last under that name; so a statement that resolves its path from
\* the root changes only nodes reached through newest children, and every
\* node that is an earlier same-named sibling, or below one, stays as it was;
\* the statements of the docstring of __call__ print two a elements, each
\* with one b holding two c.
CommitsGoUnderNewestSibling ==
    /\ []AccessReturnsNewest
    /\ [][\A n \in Nodes(heap) : heap'[n] # heap[n] => OnNewestChain(heap, n)]_vars
    /\ [](HistPaths = <<ABC, ABC, <<"a">>, ABC, ABC>> /\ out # NoXml => out = DocstringDocument)

\* The five statements of the docstring of __call__, then the print.
CommitsGoUnderNewestSiblingWitness ==
    /\ HistPaths = <<ABC, ABC, <<"a">>, ABC, ABC>>
    /\ out # NoXml

\* ------------------------------------------------------------------ C8

\* C8 as stated: root(**A) on a new root named r, then the print, gives one
\* childless element named r with the items of A as its attributes.
RootCallSetsAttributes ==
    Len(hist) = 1 /\ hist[1].path = <<>> /\ out # NoXml =>
        out = Element(heap[Root].name, Quoted(hist[1].kwargs), <<>>)

\* C8, amended: root(**A) on a new root named r, then the print, gives one
\* childless element named r with no attributes, whatever A is.
RootCallLeavesRootBare ==
    Len(hist) = 1 /\ hist[1].path = <<>> /\ out # NoXml =>
        /\ out = Element(heap[Root].name, <<>>, <<>>)
        /\ heap[Root].name \in RootNames

\* root(x=1) on a root named books, then the print.
RootCallLeavesRootBareWitness ==
    /\ hist = <<[path |-> <<>>, kwargs |-> X1]>>
    /\ heap[Root].name = "books"
    /\ out # NoXml

\* ------------------------------------------------------------------ C11

IsPrefix(s, t) == Len(s) <= Len(t) /\ SubSeq(t, 1, Len(s)) = s

\* C11: children lists are append-only and keep attach order.  In every step,
\* the children list of every node before the step is a prefix of its
\* children list after it: no child is removed, moved or put before another.
ChildrenAppendOnly ==
    [][\A n \in Nodes(heap) : IsPrefix(heap[n].elements, heap'[n].elements)]_vars

\* A node with three children, attached in the order of their construction.
ChildrenAppendOnlyWitness ==
    \E n \in Nodes(heap) :
        /\ Len(heap[n].elements) = 3
        /\ heap[n].elements[1] < heap[n].elements[2]
        /\ heap[n].elements[2] < heap[n].elements[3]

\* ------------------------------------------------------------------ C12

\* The element x is the element of node n: n's name, n's attributes in their
\* order with the values as strings, and the elements of n's children in
\* children-list order.
RECURSIVE ElementOf(_, _, _)
ElementOf(x, h, n) ==
    /\ x.tag = h[n].name
    /\ x.attrs = Quoted(h[n].attributes)
    /\ Len(x.kids) = Len(h[n].elements)
    /\ \A i \in 1..Len(x.kids) : ElementOf(x.kids[i], h, h[n].elements[i])

\* The start tags of element x in document order.
RECURSIVE StartTags(_)
RECURSIVE StartTagsOfAll(_)
StartTags(x) == <<x.tag>> \o StartTagsOfAll(x.kids)
StartTagsOfAll(xs) == IF Len(xs) = 0 THEN <<>> ELSE StartTags(xs[1]) \o StartTagsOfAll(Tail(xs))

\* The names of the nodes of the tree of n, depth first, a node before its
\* children, the children in children-list order.
RECURSIVE PreOrder(_, _)
RECURSIVE PreOrderOfAll(_, _)
PreOrder(h, n) == <<h[n].name>> \o PreOrderOfAll(h, h[n].elements)
PreOrderOfAll(h, ns) == IF ns = <<>> THEN <<>> ELSE PreOrder(h, ns[1]) \o PreOrderOfAll(h, Tail(ns))

\* C12: the document printed for the root is the element of the root, with
\* every node's name, every attribute with its value as a string, and the
\* children's elements in children-list order, so that its start tags come in
\* depth-first pre-order; printing changes no node, and printing again with
\* no commit in between prints the same document.
SerializationPreOrder ==
    /\ [](out # NoXml =>
            /\ ElementOf(out, heap, Root)
            /\ StartTags(out) = PreOrder(heap, Root))
    /\ [][out' # out => heap' = heap /\ out = NoXml]_vars

\* A printed document whose root has two children, the first with an
\* attribute and two children of its own that carry different attributes.
SerializationPreOrderWitness ==
    /\ out # NoXml
    /\ Len(out.kids) = 2
    /\ out.kids[1].attrs # <<>>
    /\ Len(out.kids[1].kids) = 2
    /\ out.kids[1].kids[1].attrs # out.kids[1].kids[2].attrs

\* ------------------------------------------------------------------ C13

\* C13: on a root with no committed child named a, two accesses root.a give
\* two different uncommitted cursors; a commit through the second one, either
\* by invoking it or by invoking a child accessed below it, attaches exactly
\* one node named a to the root, and the first cursor stays in no children
\* list and no childByName map.
SecondCursorCommitsOnce ==
    \A a \in Names :
        a \notin DOMAIN heap[Root].element_map =>
            LET r1 == GetAttr(heap, Root, a)
                r2 == GetAttr(r1.heap, Root, a)
                direct == Call(r2.heap, r2.ret, X1)
            IN /\ r1.ret # r2.ret
               /\ r2.heap[r1.ret].parent = Root /\ r2.heap[r2.ret].parent = Root
               /\ ~Committed(r2.heap, r1.ret) /\ ~Committed(r2.heap, r2.ret)
               /\ Cardinality(Named(direct, Root, a)) = Cardinality(Named(heap, Root, a)) + 1
               /\ Named(heap, Root, a) = {}
               /\ ~Committed(direct, r1.ret) /\ ~Registered(direct, r1.ret)
               /\ \A nm \in Names :
                    LET r3 == GetAttr(r2.heap, r2.ret, nm)
                        below == Call(r3.heap, r3.ret, X1)
                    IN /\ Cardinality(Named(below, Root, a)) = 1
                       /\ Occurrences(below, Root, r2.ret) = 1
                       /\ ~Committed(below, r1.ret) /\ ~Registered(below, r1.ret)

\* Two cursors of one name under the root, the later one attached to the root
\* by a commit below it, the earlier one attached nowhere, and no other node
\* of that name under the root.
SecondCursorCommitsOnceWitness ==
    \E c1, c2 \in Nodes(heap) :
        /\ c1 < c2
        /\ heap[c1].parent = Root /\ heap[c2].parent = Root
        /\ heap[c1].name = heap[c2].name
        /\ heap[c1].attributes = NoAttrs /\ heap[c2].attributes = NoAttrs
        /\ heap[c2].elements # <<>>
        /\ ~Committed(heap, c1) /\ ~Registered(heap, c1)
        /\ Occurrences(heap, Root, c2) = 1
        /\ Cardinality(Named(heap, Root, heap[c2].name)) = 1

\* ------------------------------------------------------------------ C14

\* The loop test of the specified walk: e has a parent and is not already a
\* committed child of it, by identity, checked against the parent's children.
SpecifiedWalkTest(h, e) ==
    /\ h[e].parent # None
    /\ \A i \in 1..Len(h[h[e].parent].elements) : h[h[e].parent].elements[i] # e

\* The specified walk started at e: append, set childByName, move to the parent.
RECURSIVE SpecifiedWalk(_, _)
SpecifiedWalk(h, e) ==
    IF SpecifiedWalkTest(h, e) THEN SpecifiedWalk(Attach(h, e), h[e].parent) ELSE h

\* The specified commit of node self with the attributes kwargs.
SpecifiedCall(h, self, kwargs) ==
    SpecifiedWalk(Append(h, Fresh(h, self, kwargs)), Len(h) + 1)

\* C14 as stated: from every reachable state and for every node the caller
\* holds, the implemented commit and the specified commit leave the same
\* children lists and childByName maps.
WalksEquivalent ==
    \A self \in Held(heap), kwargs \in AttrMaps :
        Call(heap, self, kwargs) = SpecifiedCall(heap, self, kwargs)

\* ------------------------------------------------------------------ C15

\* n is t or a node above t on t's parent chain.
RECURSIVE OnParentChain(_, _, _)
OnParentChain(h, n, t) ==
    t # None /\ (n = t \/ OnParentChain(h, n, h[t].parent))

\* The number of places of all children lists together that hold n.
RECURSIVE TotalOccurrences(_, _, _)
TotalOccurrences(h, n, p) ==
    IF p = 0 THEN 0 ELSE Occurrences(h, p, n) + TotalOccurrences(h, n, p - 1)

Attachments(h, n) == IF n \in Nodes(h) THEN TotalOccurrences(h, n, Len(h)) ELSE 0

\* C15 as stated: a commit on a node t that has a parent attaches exactly one
\* newly created node at t's level, with t's name, t's parent and the supplied
\* attributes, and does not attach t; every other node the commit attaches is
\* an ancestor cursor of t, with an empty attribute mapping.
CommitAttachesOneNewNode ==
    \A t \in Held(heap), kwargs \in StmtAttrMaps \cup {NoAttrs} :
        heap[t].parent # None =>
            LET h2 == Call(heap, t, kwargs)
                e == Len(heap) + 1
            IN /\ Len(h2) = Len(heap) + 1
               /\ h2[e].name = heap[t].name
               /\ h2[e].parent = heap[t].parent
               /\ h2[e].attributes = kwargs
               /\ Attachments(h2, e) = 1
               /\ Occurrences(h2, heap[t].parent, e) = 1
               /\ Attachments(h2, t) = Attachments(heap, t)
               /\ \A n \in Nodes(heap) :
                    Attachments(h2, n) # Attachments(heap, n) =>
                        /\ Attachments(h2, n) = Attachments(heap, n) + 1
                        /\ OnParentChain(heap, n, heap[t].parent)
                        /\ h2[n].attributes = NoAttrs

\* ------------------------------------------------------------------ C16

\* Following parent links from n reaches a parentless node without coming
\* back to a node of seen.
RECURSIVE ReachesParentless(_, _, _)
ReachesParentless(h, n, seen) ==
    \/ h[n].parent = None
    \/ /\ h[n].parent \in Nodes(h) \ (seen \cup {n})
       /\ ReachesParentless(h, h[n].parent, seen \cup {n})

ParentLinksAgree(h) ==
    \A p \in Nodes(h) :
        \A i \in 1..Len(h[p].elements) :
            /\ h[p].elements[i] \in Nodes(h)
            /\ h[h[p].elements[i]].parent = p

\* C16: every node of a children list has the list's owner as its parent, a
\* node's parent never changes once the node is created, and the parent
\* links from any node lead to a parentless node without a cycle.
ParentLinksConsistent ==
    /\ [](/\ ParentLinksAgree(heap)
          /\ \A n \in Nodes(heap) : ReachesParentless(heap, n, {}))
    /\ [][\A n \in Nodes(heap) :
            /\ n \in Nodes(heap')
            /\ heap'[n].parent = heap[n].parent]_vars

\* A committed chain of depth two below the root, next to a cursor that is
\* not attached.
ParentLinksConsistentWitness ==
    /\ \E p \in Nodes(heap), n \in Nodes(heap) :
        /\ Committed(heap, p) /\ heap[p].parent = Root
        /\ Committed(heap, n) /\ heap[n].parent = p
    /\ \E c \in Nodes(heap) : heap[c].parent # None /\ ~Committed(heap, c)

\* ------------------------------------------------------------------ C17

\* The number of nodes above n on its parent chain.
RECURSIVE Ancestors(_, _)
Ancestors(h, n) == IF h[n].parent = None THEN 0 ELSE 1 + Ancestors(h, h[n].parent)

\* The first node, from n upward, that has no parent or is the registered
\* child of its name in its parent's map.
RECURSIVE FirstStop(_, _)
FirstStop(h, n) ==
    IF h[n].parent = None \/ n \in Values(h[h[n].parent].element_map)
    THEN n
    ELSE FirstStop(h, h[n].parent)

\* C17: the walk of a commit on t runs its body at most as many times as t
\* has ancestors, and ends at a parentless node or at the first node of the
\* chain that was already registered in its parent's map; the counted walk
\* is the walk of __call__.
CommitWalkBounded ==
    \A t \in Held(heap), kwargs \in AttrMaps \cup {NoAttrs} :
        LET h1  == Append(heap, Fresh(heap, t, kwargs))
            run == WalkRun(h1, Len(h1), 0)
        IN /\ run.heap = Call(heap, t, kwargs)
           /\ run.iterations <= Ancestors(heap, t)
           /\ run.at = FirstStop(h1, Len(h1))
           /\ \/ run.heap[run.at].parent = None
              \/ /\ run.at \in Values(heap[heap[run.at].parent].element_map)
                 /\ run.at # Len(h1)

\* Both ways for the walk to end are seen from one state: a commit two levels
\* down whose walk runs twice and ends at the root, and one whose walk runs
\* once and ends at a registered ancestor.
CommitWalkBoundedWitness ==
    /\ \E t \in Held(heap) :
        LET h1  == Append(heap, Fresh(heap, t, X1))
            run == WalkRun(h1, Len(h1), 0)
        IN run.iterations = 2 /\ run.at = Root /\ Ancestors(heap, t) = 2
    /\ \E t \in Held(heap) :
        LET h1  == Append(heap, Fresh(heap, t, X1))
            run == WalkRun(h1, Len(h1), 0)
        IN run.iterations = 1 /\ run.at # Root /\ Ancestors(heap, t) = 2

\* ------------------------------------------------------------------ C18

AllDone == threads # NoThreads /\ \A i \in 1..2 : threads[i].pc = "done"

\* The heap after the two commits of the threads run one after the other on
\* the heap of the fork, thread i first.
Sequential(i) ==
    LET a == threads[i]
        b == threads[Other(i)]
    IN Call(Call(start.heap, a.self, a.kwargs), b.self, b.kwargs)

\* A node that existed at the fork is more often in a children list than
\* after either sequential order, and is in it twice.
AncestorAppendedTwice ==
    \E p \in Nodes(start.heap), n \in Nodes(start.heap) :
        /\ Occurrences(heap, p, n) = 2
        /\ Occurrences(Sequential(1), p, n) = 1
        /\ Occurrences(Sequential(2), p, n) = 1

\* C18: the walk of __call__ is not atomic.  Two commits whose statements do
\* not overlap leave the heap of the sequential execution in their order, and
\* a tree that neither sequential order produces, or an ancestor appended
\* twice, is left only by runs whose statements overlapped; the witness is
\* such a run.
WalkNotAtomic ==
    AllDone =>
        /\ ~start.overlapped => heap = Sequential(start.first)
        /\ \/ AncestorAppendedTwice
           \/ ToXml(heap, Root) \notin {ToXml(Sequential(1), Root), ToXml(Sequential(2), Root)}
           => start.overlapped

\* Two invocations on one cursor below a shared cursor that is not yet
\* attached: both threads have finished, the shared cursor is twice in the
\* root's list, and the document is that of neither sequential order.
WalkNotAtomicWitness ==
    /\ AllDone
    /\ threads[1].self = threads[2].self
    /\ start.heap[threads[1].self].parent \notin {None, Root}
    /\ AncestorAppendedTwice
    /\ \E n \in Nodes(start.heap) :
        /\ Occurrences(heap, Root, n) = 2 /\ ~Committed(start.heap, n)
    /\ ToXml(heap, Root) \notin {ToXml(Sequential(1), Root), ToXml(Sequential(2), Root)}

====
